---- MODULE Spec2Model ----
(***************************************************************************)
(* GOrgAnalyzer: per-repository author counts and language byte counts,    *)
(* merged over the repositories under a base directory and rendered as a   *)
(* bar chart.                                                               *)
(*                                                                         *)
(* Strings that the code takes apart (paths, .gitignore lines, git log     *)
(* output) are sequences of one-character strings.  Go maps are functions  *)
(* whose DOMAIN is the set of keys present.                                *)
(***************************************************************************)
EXTENDS Integers, Sequences, FiniteSets, TLC

VARIABLES
    \* main (src/main.go)
    pc, variant, entries, idx, totalLangCounts, totalBytesAnalyzed,
    calls, console, svgCalls, exitCode,
    \* one run of analyzeLanguages, callback by callback
    scanRepo, scanIdx, langByteCounts, totalBytes, scanLog, scanPc,
    \* one run of analyzeCommitsByAuthor
    gitResult, commitCounts, authorsPc,
    \* one run of generateProgressBarSVG
    chartIn, chartOut, chartPc

mainVars == <<pc, variant, entries, idx, totalLangCounts, totalBytesAnalyzed,
              calls, console, svgCalls, exitCode>>
scanVars == <<scanRepo, scanIdx, langByteCounts, totalBytes, scanLog, scanPc>>
authorVars == <<gitResult, commitCounts, authorsPc>>
chartVars == <<chartIn, chartOut, chartPc>>
vars == <<mainVars, scanVars, authorVars, chartVars>>

----------------------------------------------------------------------------
(* Bounds of the model *)

\* largest file size, in bytes
MaxSize == 2
\* largest number of entries of the base directory
MaxEntries == 2
\* largest length of the git log output, in characters
MaxOutLen == 11
\* largest byte count of one language handed to the chart renderer
MaxChartBytes == 3

----------------------------------------------------------------------------
(* Go maps *)

EmptyMap == [k \in {} |-> 0]

\* m[k] += v
MapAdd(m, k, v) ==
    IF k \in DOMAIN m THEN [m EXCEPT ![k] = @ + v] ELSE m @@ (k :> v)

RECURSIVE SumOver(_, _)
SumOver(m, keys) ==
    IF keys = {} THEN 0
    ELSE LET k == CHOOSE x \in keys : TRUE IN m[k] + SumOver(m, keys \ {k})

\* the sum of a map's values
MapSum(m) == SumOver(m, DOMAIN m)

----------------------------------------------------------------------------
(* Strings *)

Sep == "/"

UpperChars == <<"A","B","C","D","E","F","G","H","I","J","K","L","M",
                "N","O","P","Q","R","S","T","U","V","W","X","Y","Z">>
LowerChars == <<"a","b","c","d","e","f","g","h","i","j","k","l","m",
                "n","o","p","q","r","s","t","u","v","w","x","y","z">>

ToLowerChar(c) ==
    IF \E i \in DOMAIN UpperChars : UpperChars[i] = c
    THEN LowerChars[CHOOSE i \in DOMAIN UpperChars : UpperChars[i] = c]
    ELSE c

\* strings.ToLower
ToLower(s) == [i \in DOMAIN s |-> ToLowerChar(s[i])]

\* s[from:]
Drop(s, from) == SubSeq(s, from, Len(s))

\* info.Name(): the last element of the path
BaseName(path) ==
    LET seps == {i \in DOMAIN path : path[i] = Sep}
    IN IF seps = {} THEN path
       ELSE Drop(path, 1 + CHOOSE i \in seps : \A j \in seps : j <= i)

\* filepath.Ext: the suffix from the last dot of the last element, or ""
Ext(name) ==
    LET b == BaseName(name)
        dots == {i \in DOMAIN b : b[i] = "."}
    IN IF dots = {} THEN <<>>
       ELSE Drop(b, CHOOSE i \in dots : \A j \in dots : j <= i)

\* strings.TrimSpace
RECURSIVE TrimSpace(_)
TrimSpace(s) ==
    IF s = <<>> THEN s
    ELSE IF Head(s) = " " THEN TrimSpace(Tail(s))
    ELSE IF s[Len(s)] = " " THEN TrimSpace(SubSeq(s, 1, Len(s) - 1))
    ELSE s

HasPrefix(s, p) == Len(s) >= Len(p) /\ SubSeq(s, 1, Len(p)) = p

----------------------------------------------------------------------------
(* filepath.Match, for patterns over literals, '*', '?' and '[...]' classes *)
(* (no ranges and no escapes: the patterns of this model hold no '-' and    *)
(* no backslash).  A malformed pattern is ErrBadPattern.                    *)

\* the index of the ']' that closes the class opening at p[1] = "[", or 0
ClassEnd(p) ==
    LET first == IF Len(p) >= 2 /\ p[2] = "^" THEN 3 ELSE 2
        ends == {i \in DOMAIN p : i > first /\ p[i] = "]"}
    IN IF ends = {} \/ (Len(p) >= first /\ p[first] = "]") THEN 0
       ELSE CHOOSE i \in ends : \A j \in ends : i <= j

RECURSIVE WellFormed(_)
WellFormed(p) ==
    IF p = <<>> THEN TRUE
    ELSE IF Head(p) = "["
         THEN ClassEnd(p) # 0 /\ WellFormed(Drop(p, ClassEnd(p) + 1))
         ELSE WellFormed(Tail(p))

RECURSIVE Glob(_, _)
Glob(p, s) ==
    IF p = <<>> THEN s = <<>>
    ELSE IF Head(p) = "*"
         THEN \/ Glob(Tail(p), s)
              \/ s # <<>> /\ Head(s) # Sep /\ Glob(p, Tail(s))
    ELSE IF Head(p) = "?"
         THEN s # <<>> /\ Head(s) # Sep /\ Glob(Tail(p), Tail(s))
    ELSE IF Head(p) = "["
         THEN LET e == ClassEnd(p)
                  neg == p[2] = "^"
                  members == {p[i] : i \in (IF neg THEN 3 ELSE 2)..(e - 1)}
              IN /\ s # <<>>
                 /\ (Head(s) \in members) # neg
                 /\ Glob(Drop(p, e + 1), Tail(s))
    ELSE s # <<>> /\ Head(s) = Head(p) /\ Glob(Tail(p), Tail(s))

\* filepath.Match(pattern, name): (matched, err)
Match(pattern, name) ==
    IF ~WellFormed(pattern) THEN [matched |-> FALSE, err |-> TRUE]
    ELSE [matched |-> Glob(pattern, name), err |-> FALSE]

----------------------------------------------------------------------------
(* The analyzer package: language table, ignore matcher, scanner *)

extToLang ==
    (<<".","g","o">> :> "Go") @@ (<<".","t","s">> :> "TypeScript") @@
    (<<".","c","s">> :> "C#") @@ (<<".","p","y">> :> "Python") @@
    (<<".","j","a","v","a">> :> "Java") @@ (<<".","j","s">> :> "JavaScript") @@
    (<<".","c","p","p">> :> "C++") @@ (<<".","c">> :> "C") @@
    (<<".","r","b">> :> "Ruby") @@ (<<".","p","h","p">> :> "PHP") @@
    (<<".","h","t","m","l">> :> "HTML") @@ (<<".","c","s","s">> :> "CSS") @@
    (<<".","r","s">> :> "Rust") @@ (<<".","s","w","i","f","t">> :> "Swift") @@
    (<<".","k","t">> :> "Kotlin") @@ (<<".","s","h">> :> "Shell") @@
    (<<".","x","m","l">> :> "XML") @@ (<<".","y","a","m","l">> :> "YAML") @@
    (<<".","y","m","l">> :> "YAML")

\* the lines of .gitignore that are kept as patterns, trimmed, in file order
Patterns(lines) ==
    LET trimmed == [i \in DOMAIN lines |-> TrimSpace(lines[i])]
        IsPattern(l) == l # <<>> /\ ~HasPrefix(l, <<"#">>)
    IN SelectSeq(trimmed, IsPattern)

\* the loop over the patterns: the first error or the first match decides
RECURSIVE MatchAny(_, _)
MatchAny(patterns, relativePath) ==
    IF patterns = <<>> THEN [ignore |-> FALSE, err |-> FALSE]
    ELSE LET m == Match(Head(patterns), relativePath)
         IN IF m.err THEN [ignore |-> FALSE, err |-> TRUE]
            ELSE IF m.matched THEN [ignore |-> TRUE, err |-> FALSE]
            ELSE MatchAny(Tail(patterns), relativePath)

\* shouldIgnorePath without its loop over the patterns
shouldIgnorePathNoMatch(gi, rel) ==
    IF gi.state \in {"denied", "readerr"} THEN [ignore |-> FALSE, err |-> TRUE]
    ELSE [ignore |-> FALSE, err |-> FALSE]

\* shouldIgnorePath(repoPath, path): (ignore, err).  gi is the repository's
\* root .gitignore as the open and the scanner find it; rel is
\* filepath.Rel(repoPath, path), the path below the root that Walk joined.
shouldIgnorePath(gi, rel) ==
    IF gi.state = "absent" THEN [ignore |-> FALSE, err |-> FALSE]
    ELSE IF gi.state \in {"denied", "readerr"} THEN [ignore |-> FALSE, err |-> TRUE]
    ELSE MatchAny(Patterns(gi.lines), rel)

\* the callback without its totalBytes += byteCount
walkFnNoTotal(acc, gi, e) ==
    LET ig == shouldIgnorePath(gi, e.rel)
        ext == ToLower(Ext(BaseName(e.rel)))
    IN IF e.fault = "lstat" \/ e.isDir \/ ig.err \/ ig.ignore
          \/ ext \notin DOMAIN extToLang \/ e.fault # "none"
       THEN [acc EXCEPT !.log = ""]
       ELSE [acc EXCEPT !.counts = MapAdd(acc.counts, extToLang[ext], e.size),
                        !.log = ""]

\* the callback going on to classify the file after the matcher's error
walkFnFailOpen(acc, gi, e) ==
    LET ig == shouldIgnorePath(gi, e.rel)
        ext == ToLower(Ext(BaseName(e.rel)))
        log == IF ig.err THEN "Error checking .gitignore" ELSE ""
    IN IF e.fault = "lstat" \/ e.isDir \/ ig.ignore
          \/ ext \notin DOMAIN extToLang \/ e.fault # "none"
       THEN [acc EXCEPT !.log = log]
       ELSE [counts |-> MapAdd(acc.counts, extToLang[ext], e.size),
             total |-> acc.total + e.size,
             log |-> log]

\* the function handed to filepath.Walk, called on one entry e of the tree;
\* acc holds langByteCounts, totalBytes and the line logged by the last call
walkFn(acc, gi, e) ==
    IF e.fault = "lstat"
    THEN [acc EXCEPT !.log = "Warning: Skipping invalid path"]
    ELSE IF e.isDir THEN [acc EXCEPT !.log = ""]
    ELSE LET ig == shouldIgnorePath(gi, e.rel)
             ext == ToLower(Ext(BaseName(e.rel)))
         IN IF ig.err THEN [acc EXCEPT !.log = "Error checking .gitignore"]
            ELSE IF ig.ignore THEN [acc EXCEPT !.log = ""]
            ELSE IF ext \notin DOMAIN extToLang THEN [acc EXCEPT !.log = ""]
            ELSE IF e.fault = "open"
                 THEN [acc EXCEPT !.log = "Warning: Unable to open file"]
            ELSE IF e.fault = "stat"
                 THEN [acc EXCEPT !.log = "Warning: Unable to get file info"]
            ELSE [counts |-> MapAdd(acc.counts, extToLang[ext], e.size),
                  total |-> acc.total + e.size,
                  log |-> ""]

RECURSIVE Walk(_, _, _)
Walk(acc, gi, es) ==
    IF es = <<>> THEN acc ELSE Walk(walkFn(acc, gi, Head(es)), gi, Tail(es))

\* analyzeLanguages(repoPath): (langByteCounts, totalBytes, err)
analyzeLanguages(repo) ==
    LET acc == Walk([counts |-> EmptyMap, total |-> 0, log |-> ""],
                    repo.gitignore, repo.tree)
    IN IF repo.walkErr THEN [counts |-> EmptyMap, total |-> 0, err |-> TRUE]
       ELSE [counts |-> acc.counts, total |-> acc.total, err |-> FALSE]

----------------------------------------------------------------------------
(* Repositories the model scans *)

Sizes == 0..MaxSize

File(rel, size, fault) ==
    [rel |-> rel, isDir |-> FALSE, size |-> size, fault |-> fault]
Dir(rel, fault) ==
    [rel |-> rel, isDir |-> TRUE, size |-> 0, fault |-> fault]

pBPY == <<"B",".","P","Y">>
pAGo == <<"a",".","g","o">>
pBPy == <<"b",".","p","y">>
pDTxt == <<"d",".","t","x","t">>
pS == <<"s">>
pSCGo == <<"s","/","c",".","g","o">>

NoIgnore == [state |-> "absent", lines |-> <<>>]
IgnoreOf(lines) == [state |-> "ok", lines |-> lines]

lnStarGo == <<"*",".","g","o">>
lnStarPy == <<"*",".","p","y">>
lnBad == <<"[">>

\* the .gitignore files of the scanned repositories
ScanIgnores ==
    { NoIgnore,
      [state |-> "denied", lines |-> <<>>],
      [state |-> "readerr", lines |-> <<lnStarGo>>],
      IgnoreOf(<<lnStarGo>>),
      IgnoreOf(<<lnStarPy>>),
      IgnoreOf(<< <<"#"," ","c">>, <<>>, <<" "," ","*",".","P","Y"," ">> >>),
      IgnoreOf(<<lnBad, lnStarGo>>),
      IgnoreOf(<<lnStarGo, lnBad>>),
      IgnoreOf(<< <<"s","/","*">> >>),
      IgnoreOf(<< <<"?",".","[","g","t","]","*">> >>) }

\* the trees of the scanned repositories, in Walk's lexical order: every
\* file of every size, at most one entry of the tree faulty
ScanTrees ==
    LET Tree(sz, at, f) ==
            << File(pBPY, sz[1], IF at = 1 THEN f ELSE "none"),
               File(pAGo, sz[2], IF at = 2 THEN f ELSE "none"),
               File(pDTxt, sz[3], IF at = 3 THEN f ELSE "none"),
               Dir(pS, IF at = 4 /\ f = "lstat" THEN f ELSE "none"),
               File(pSCGo, sz[4], IF at = 5 THEN f ELSE "none") >>
    IN { Tree(sz, at, f) : sz \in [1..4 -> Sizes], at \in 1..5,
                           f \in {"none", "lstat", "open", "stat"} }

ScanRepos ==
    [gitignore : ScanIgnores, tree : ScanTrees, walkErr : BOOLEAN]

----------------------------------------------------------------------------
(* SpecScan: analyzeLanguages on one repository, one Walk callback a step *)

MainIdle ==
    /\ pc = "idle" /\ variant = "builtin" /\ entries = <<>> /\ idx = 0
    /\ totalLangCounts = EmptyMap /\ totalBytesAnalyzed = 0
    /\ calls = <<>> /\ console = "" /\ svgCalls = <<>> /\ exitCode = 0
ScanIdle ==
    /\ scanRepo = [gitignore |-> NoIgnore, tree |-> <<>>, walkErr |-> FALSE]
    /\ scanIdx = 0 /\ langByteCounts = EmptyMap /\ totalBytes = 0
    /\ scanLog = "" /\ scanPc = "idle"
AuthorsIdle ==
    gitResult = [out |-> <<>>, err |-> FALSE] /\ commitCounts = EmptyMap
    /\ authorsPc = "idle"
ChartIdle ==
    chartIn = [counts |-> EmptyMap, total |-> 0, variant |-> "builtin"]
    /\ chartOut = <<>> /\ chartPc = "idle"

ScanInit ==
    /\ scanRepo \in ScanRepos
    /\ scanIdx = 0
    /\ langByteCounts = EmptyMap
    /\ totalBytes = 0
    /\ scanLog = ""
    /\ scanPc = "walking"
    /\ MainIdle /\ AuthorsIdle /\ ChartIdle

\* Walk calls the function on the next entry of the tree
ScanVisit ==
    /\ scanPc = "walking"
    /\ scanIdx < Len(scanRepo.tree)
    /\ LET acc == walkFn([counts |-> langByteCounts, total |-> totalBytes,
                          log |-> scanLog],
                         scanRepo.gitignore, scanRepo.tree[scanIdx + 1])
       IN /\ langByteCounts' = acc.counts
          /\ totalBytes' = acc.total
          /\ scanLog' = acc.log
    /\ scanIdx' = scanIdx + 1
    /\ UNCHANGED <<scanRepo, scanPc, mainVars, authorVars, chartVars>>

\* Walk returns: analyzeLanguages returns the counts, or the walk's error
ScanReturn ==
    /\ scanPc = "walking"
    /\ scanIdx = Len(scanRepo.tree)
    /\ scanPc' = IF scanRepo.walkErr THEN "failed" ELSE "returned"
    /\ UNCHANGED <<scanRepo, scanIdx, langByteCounts, totalBytes, scanLog,
                   mainVars, authorVars, chartVars>>

ScanNext == ScanVisit \/ ScanReturn

SpecScan == ScanInit /\ [][ScanNext]_vars

----------------------------------------------------------------------------
(* The analyzer package: author counter and repository analyzer *)

NL == "\n"

\* strings.Split(s, "\n")
RECURSIVE Split(_)
Split(s) ==
    LET nls == {i \in DOMAIN s : s[i] = NL}
    IN IF nls = {} THEN <<s>>
       ELSE LET i == CHOOSE k \in nls : \A j \in nls : k <= j
            IN <<SubSeq(s, 1, i - 1)>> \o Split(Drop(s, i + 1))

\* the loop over the lines without its test for the empty line
RECURSIVE CountAuthorsBlank(_, _)
CountAuthorsBlank(lines, counts) ==
    IF lines = <<>> THEN counts
    ELSE CountAuthorsBlank(Tail(lines), MapAdd(counts, Head(lines), 1))

\* the loop over the lines: counts[author]++ for every line that is not ""
RECURSIVE CountAuthors(_, _)
CountAuthors(lines, counts) ==
    IF lines = <<>> THEN counts
    ELSE CountAuthors(Tail(lines),
                      IF Head(lines) # <<>> THEN MapAdd(counts, Head(lines), 1)
                      ELSE counts)

\* analyzeCommitsByAuthor(repoPath): (counts, err); git is what
\* `git -C repoPath log --pretty=%an` gave: its output, or its failure
analyzeCommitsByAuthor(git) ==
    IF git.err THEN [counts |-> EmptyMap, err |-> TRUE]
    ELSE [counts |-> CountAuthors(Split(git.out), EmptyMap), err |-> FALSE]

\* n / d rounded to the nearest integer, ties to even (d > 0; the rounding
\* of %.2f on the exact quotient)
RoundDiv(n, d) ==
    LET q == n \div d
        r == n % d
    IN IF 2 * r < d THEN q
       ELSE IF 2 * r > d THEN q + 1
       ELSE IF q % 2 = 0 THEN q ELSE q + 1

\* (float64(byteCount) / float64(total)) * 100 as %.2f prints it: IEEE 754
\* division gives NaN for 0/0 and +Inf for x/0; centi is the value in
\* hundredths of a percent
Percentage(byteCount, total) ==
    IF total = 0
    THEN [class |-> IF byteCount = 0 THEN "NaN" ELSE "+Inf", centi |-> 0]
    ELSE [class |-> "finite", centi |-> RoundDiv(byteCount * 10000, total)]

\* for lang, count := range repoLangCounts { totalLangCounts[lang] += count }
RECURSIVE MergeOver(_, _, _)
MergeOver(total, repoLangCounts, keys) ==
    IF keys = {} THEN total
    ELSE LET lang == CHOOSE k \in keys : TRUE
         IN MergeOver(MapAdd(total, lang, repoLangCounts[lang]),
                      repoLangCounts, keys \ {lang})

\* the merge with = for +=
MergeOverwrite(total, repoLangCounts) ==
    [l \in DOMAIN total \cup DOMAIN repoLangCounts |->
        IF l \in DOMAIN repoLangCounts THEN repoLangCounts[l] ELSE total[l]]

Merge(total, repoLangCounts) ==
    MergeOver(total, repoLangCounts, DOMAIN repoLangCounts)

NoOutput == [log |-> "", authors |-> EmptyMap, stats |-> EmptyMap]

\* processGitRepo without the return after a failed git log
processGitRepoNoReturn(child, cumCounts, cumTotal) ==
    LET commits == analyzeCommitsByAuthor(child.git)
        langs == analyzeLanguages(child.repo)
    IN IF langs.err
       THEN [counts |-> cumCounts, total |-> cumTotal, err |-> FALSE,
             out |-> [NoOutput EXCEPT !.log = "Error analyzing languages"]]
       ELSE [counts |-> Merge(cumCounts, langs.counts),
             total |-> cumTotal + langs.total,
             err |-> FALSE,
             out |-> [log |-> IF commits.err THEN "Error analyzing commits" ELSE "",
                      authors |-> commits.counts,
                      stats |-> [l \in DOMAIN langs.counts |->
                                   Percentage(langs.counts[l], langs.total)]]]

\* processGitRepo(repoPath, totalLangCounts, totalFilesAnalyzed): the
\* cumulative counts and total after the call, what it printed and logged,
\* and the error it returns (always nil)
processGitRepo(child, cumCounts, cumTotal) ==
    LET commits == analyzeCommitsByAuthor(child.git)
        langs == analyzeLanguages(child.repo)
    IN IF commits.err
       THEN [counts |-> cumCounts, total |-> cumTotal, err |-> FALSE,
             out |-> [NoOutput EXCEPT !.log = "Error analyzing commits"]]
       ELSE IF langs.err
       THEN [counts |-> cumCounts, total |-> cumTotal, err |-> FALSE,
             out |-> [log |-> "Error analyzing languages",
                      authors |-> commits.counts, stats |-> EmptyMap]]
       ELSE [counts |-> Merge(cumCounts, langs.counts),
             total |-> cumTotal + langs.total,
             err |-> FALSE,
             out |-> [log |-> "",
                      authors |-> commits.counts,
                      stats |-> [l \in DOMAIN langs.counts |->
                                   Percentage(langs.counts[l], langs.total)]]]

----------------------------------------------------------------------------
(* SpecAuthors: analyzeCommitsByAuthor on one output of git log *)

OutChars == {"A", "B", NL}

SeqsUpTo(S, n) == UNION {[1..k -> S] : k \in 0..n}

AuthorsInit ==
    /\ gitResult \in [out : SeqsUpTo(OutChars, MaxOutLen), err : BOOLEAN]
    /\ (gitResult.err => gitResult.out = <<>>)
    /\ commitCounts = EmptyMap
    /\ authorsPc = "called"
    /\ MainIdle /\ ScanIdle /\ ChartIdle

AuthorsReturn ==
    /\ authorsPc = "called"
    /\ LET r == analyzeCommitsByAuthor(gitResult)
       IN /\ commitCounts' = r.counts
          /\ authorsPc' = IF r.err THEN "failed" ELSE "returned"
    /\ UNCHANGED <<gitResult, mainVars, scanVars, chartVars>>

SpecAuthors == AuthorsInit /\ [][AuthorsReturn]_vars

----------------------------------------------------------------------------
(* The chart renderer (src/main.go, both variants) *)

\* totalWidth of the built-in-colors variant
BuiltinWidth == 500
\* x of the built-in-colors variant
BuiltinMargin == 50
\* totalWidth of the loaded-colors variant
LoadedWidth == 800
\* x of the loaded-colors variant
LoadedMargin == 0

ChartWidth(v) == IF v = "builtin" THEN BuiltinWidth ELSE LoadedWidth
ChartMargin(v) == IF v = "builtin" THEN BuiltinMargin ELSE LoadedMargin

Perms(S) == {f \in [1..Cardinality(S) -> S] : \A i, j \in DOMAIN f : i # j => f[i] # f[j]}

\* the sort with < for >
SortedLangsAscending(counts) ==
    {o \in Perms(DOMAIN counts) :
        \A i, j \in DOMAIN o : i < j => ~(counts[o[j]] < counts[o[i]])}

\* what sort.Slice with less(i, j) = byteCount[i] > byteCount[j] may leave
\* of the map's entries: any order with no smaller count before a larger
\* one (the map is ranged over in no fixed order and the sort is not stable)
SortedLangs(counts) ==
    {o \in Perms(DOMAIN counts) :
        \A i, j \in DOMAIN o : i < j => ~(counts[o[j]] > counts[o[i]])}

\* the loop over sortedLangs from position i on.  Positions and widths are
\* kept exactly, as numerators over total: barWidth is
\* totalWidth * (byteCount / totalBytes) and currentX += barWidth; x and
\* width are what "%.2f" writes of them, in hundredths.
RECURSIVE Segments(_, _, _, _, _, _)
Segments(order, counts, total, totalWidth, currentXNum, i) ==
    IF i > Len(order) THEN <<>>
    ELSE LET barWidthNum == totalWidth * counts[order[i]]
         IN << [lang |-> order[i],
                byteCount |-> counts[order[i]],
                x |-> RoundDiv(currentXNum * 100, total),
                width |-> RoundDiv(barWidthNum * 100, total)] >>
            \o Segments(order, counts, total, totalWidth,
                        currentXNum + barWidthNum, i + 1)

\* generateProgressBarSVG(langByteCounts, total, ...): the rect
\* elements written, for the order the sort produced (total > 0)
generateProgressBarSVG(counts, total, v, order) ==
    Segments(order, counts, total, ChartWidth(v), ChartMargin(v) * total, 1)

----------------------------------------------------------------------------
(* SpecChart: generateProgressBarSVG on one tally *)

ChartLangs == {"Go", "Python", "Rust"}

ChartTallies ==
    UNION {[keys -> 0..MaxChartBytes] : keys \in SUBSET ChartLangs}

ChartInit ==
    /\ \E c \in ChartTallies, v \in {"builtin", "loaded"} :
          /\ MapSum(c) > 0
          /\ chartIn = [counts |-> c, total |-> MapSum(c), variant |-> v]
    /\ chartOut = <<>>
    /\ chartPc = "called"
    /\ MainIdle /\ ScanIdle /\ AuthorsIdle

ChartRender ==
    /\ chartPc = "called"
    /\ \E order \in SortedLangs(chartIn.counts) :
          chartOut' = generateProgressBarSVG(chartIn.counts, chartIn.total,
                                             chartIn.variant, order)
    /\ chartPc' = "written"
    /\ UNCHANGED <<chartIn, mainVars, scanVars, authorVars>>

SpecChart == ChartInit /\ [][ChartRender]_vars

----------------------------------------------------------------------------
(* Spec: main, one entry of the base directory a step *)

\* what git log gives for the repositories of the base directory
GitResults ==
    { [out |-> <<>>, err |-> TRUE],
      [out |-> <<"A", NL, "B", NL, "A", NL>>, err |-> FALSE] }

\* their trees: a.go and b.py, each absent or of any size
MainTrees ==
    LET Opt(rel) == {<<>>} \cup {<<File(rel, sz, "none")>> : sz \in Sizes}
    IN {a \o b : a \in Opt(pAGo), b \in Opt(pBPy)}

MainRepos ==
    [gitignore : {NoIgnore, IgnoreOf(<<lnStarPy>>)}, tree : MainTrees,
     walkErr : BOOLEAN]

Children == [git : GitResults, repo : MainRepos]

\* the loop's test without the os.Stat of .git
IsGitRepoAnyDir(entry, hasGit) == entry.isDir

\* the test before the final summary, off by one
HasAnalyzedAboveOne(total) == total > 1

\* the loop's test of an entry: a directory, and os.Stat of its .git does
\* not report that it does not exist
IsGitRepo(entry, hasGit) == entry.isDir /\ hasGit

\* the test before the final summary
HasAnalyzed(total) == total > 0

NotCalled == [counts |-> EmptyMap, total |-> 0, err |-> FALSE]

Init ==
    /\ pc = "start"
    /\ variant \in {"builtin", "loaded"}
    /\ entries = <<>>
    /\ idx = 0
    /\ totalLangCounts = EmptyMap
    /\ totalBytesAnalyzed = 0
    /\ calls = <<>>
    /\ console = ""
    /\ svgCalls = <<>>
    /\ exitCode = 0
    /\ ScanIdle /\ AuthorsIdle /\ ChartIdle

\* log.Fatal: no argument, no such base path, ReadDir fails, or (loaded
\* variant) the colors file cannot be loaded
StartFatal ==
    /\ pc = "start"
    /\ \E why \in {"noarg", "nopath", "readdir"}
                  \cup (IF variant = "loaded" THEN {"colors"} ELSE {}) :
          console' = why
    /\ pc' = "fatal"
    /\ exitCode' = 1
    /\ UNCHANGED <<variant, entries, idx, totalLangCounts, totalBytesAnalyzed,
                   calls, svgCalls, scanVars, authorVars, chartVars>>

\* os.ReadDir lists the base directory
StartList ==
    /\ pc = "start"
    /\ entries' \in SeqsUpTo([isDir : BOOLEAN], MaxEntries)
    /\ pc' = "loop"
    /\ UNCHANGED <<variant, idx, totalLangCounts, totalBytesAnalyzed, calls,
                   console, svgCalls, exitCode, scanVars, authorVars, chartVars>>

\* an entry that is no directory, or a directory without .git: skipped
SkipEntry ==
    /\ pc = "loop"
    /\ idx < Len(entries)
    /\ \E hasGit \in BOOLEAN :
          /\ hasGit => entries[idx + 1].isDir
          /\ ~IsGitRepo(entries[idx + 1], hasGit)
          /\ calls' = Append(calls, [entry |-> idx + 1,
                                     isDir |-> entries[idx + 1].isDir,
                                     hasGit |-> hasGit,
                                     invoked |-> FALSE,
                                     gitErr |-> FALSE,
                                     scan |-> NotCalled,
                                     out |-> NoOutput])
    /\ idx' = idx + 1
    /\ UNCHANGED <<pc, variant, entries, totalLangCounts, totalBytesAnalyzed,
                   console, svgCalls, exitCode, scanVars, authorVars, chartVars>>

\* a repository: ProcessGitRepo on it; an error it returned would be logged
\* (calls keeps, for each entry in turn, what it was, whether ProcessGitRepo
\* was called on it, what analyzeLanguages returns for it and what was printed)
AnalyzeEntry ==
    /\ pc = "loop"
    /\ idx < Len(entries)
    /\ \E hasGit \in BOOLEAN, child \in Children :
          /\ hasGit => entries[idx + 1].isDir
          /\ IsGitRepo(entries[idx + 1], hasGit)
          /\ LET r == processGitRepo(child, totalLangCounts, totalBytesAnalyzed)
             IN /\ totalLangCounts' = r.counts
                /\ totalBytesAnalyzed' = r.total
                /\ calls' = Append(calls,
                       [entry |-> idx + 1,
                        isDir |-> entries[idx + 1].isDir,
                        hasGit |-> hasGit,
                        invoked |-> TRUE,
                        gitErr |-> child.git.err,
                        scan |-> IF child.git.err THEN NotCalled
                                 ELSE analyzeLanguages(child.repo),
                        out |-> r.out])
    /\ idx' = idx + 1
    /\ UNCHANGED <<pc, variant, entries, console, svgCalls, exitCode,
                   scanVars, authorVars, chartVars>>

\* the final summary with the chart; creating or writing the file may fail
FinishChart ==
    /\ pc = "loop"
    /\ idx = Len(entries)
    /\ HasAnalyzed(totalBytesAnalyzed)
    /\ \E order \in SortedLangs(totalLangCounts), fileErr \in BOOLEAN :
          svgCalls' = Append(svgCalls,
              [at |-> idx, fileErr |-> fileErr,
               rects |-> generateProgressBarSVG(totalLangCounts,
                             totalBytesAnalyzed, variant, order)])
    /\ console' = "Final Summary of Programming Languages Across All Repositories:"
    /\ pc' = "done"
    /\ UNCHANGED <<variant, entries, idx, totalLangCounts, totalBytesAnalyzed,
                   calls, exitCode, scanVars, authorVars, chartVars>>

\* nothing analyzed: the message, and no chart
FinishNothing ==
    /\ pc = "loop"
    /\ idx = Len(entries)
    /\ ~HasAnalyzed(totalBytesAnalyzed)
    /\ console' = "No programming files were analyzed across the repositories."
    /\ pc' = "done"
    /\ UNCHANGED <<variant, entries, idx, totalLangCounts, totalBytesAnalyzed,
                   calls, svgCalls, exitCode, scanVars, authorVars, chartVars>>

Next ==
    \/ StartFatal
    \/ StartList
    \/ SkipEntry
    \/ AnalyzeEntry
    \/ FinishChart
    \/ FinishNothing

Spec == Init /\ [][Next]_vars

----------------------------------------------------------------------------
(* Properties *)

Get(m, k) == IF k \in DOMAIN m THEN m[k] ELSE 0

Langs == {extToLang[e] : e \in DOMAIN extToLang}

\* the entries on which the author count and the scan both succeeded
Succeeded == {i \in DOMAIN calls :
                 calls[i].invoked /\ ~calls[i].gitErr /\ ~calls[i].scan.err}

\* the entry of the tree that the callback was last called on
Visited == scanRepo.tree[scanIdx']

ScanUnchanged == langByteCounts' = langByteCounts /\ totalBytes' = totalBytes

\* the size goes to the bucket of lang, which may be new, and to the total
AddedTo(lang, size) ==
    /\ lang \in DOMAIN langByteCounts'
    /\ \A l \in Langs :
          Get(langByteCounts', l)
            = Get(langByteCounts, l) + (IF l = lang THEN size ELSE 0)
    /\ DOMAIN langByteCounts' = DOMAIN langByteCounts \cup {lang}
    /\ totalBytes' = totalBytes + size

\* C1: at every point of the main loop, and so after it, the cumulative
\* tally is the elementwise sum, and the cumulative total the sum of the
\* totals, of what analyzeLanguages returned for exactly the repositories
\* on which the author count and the scan both succeeded; the sums are over
\* the set of those repositories, whatever the order they came in.
C1_CumulativeIsSum ==
    /\ \A l \in Langs :
          Get(totalLangCounts, l)
            = MapSum([i \in Succeeded |-> Get(calls[i].scan.counts, l)])
    /\ DOMAIN totalLangCounts
         = UNION {DOMAIN calls[i].scan.counts : i \in Succeeded}
    /\ totalBytesAnalyzed = MapSum([i \in Succeeded |-> calls[i].scan.total])

\* two repositories with different tallies that share a language were merged
C1_Witness ==
    /\ pc = "done"
    /\ Succeeded = {1, 2}
    /\ calls[1].scan.counts = ("Go" :> 2) @@ ("Python" :> 1)
    /\ calls[2].scan.counts = ("Go" :> 1)
    /\ totalLangCounts = ("Go" :> 3) @@ ("Python" :> 1)
    /\ totalBytesAnalyzed = 4

\* C2: at every step of a scan totalBytes is the sum of the values of the
\* language tally; a call of the callback on a regular file either leaves
\* tally and total as they were or adds the file's size to one language
\* bucket and to the total; a file whose lowercased extension is not in
\* extToLang changes neither.
C2_TotalIsSumOfTally ==
    /\ [](totalBytes = MapSum(langByteCounts))
    /\ [][scanIdx' = scanIdx + 1 /\ ~Visited.isDir =>
            /\ ScanUnchanged \/ \E l \in Langs : AddedTo(l, Visited.size)
            /\ ToLower(Ext(BaseName(Visited.rel))) \notin DOMAIN extToLang
                  => ScanUnchanged]_vars

\* a scan that counted two languages and passed over a non-empty d.txt
C2_Witness ==
    /\ scanPc = "returned"
    /\ scanRepo.tree[3].size = 2
    /\ langByteCounts = ("Python" :> 1) @@ ("Go" :> 3)
    /\ totalBytes = 4

\* a line of .gitignore, trimmed, that is a pattern and matches the path
MatchedByLine(gi, rel) ==
    \E i \in DOMAIN gi.lines :
       LET line == TrimSpace(gi.lines[i])
       IN /\ line # <<>>
          /\ Head(line) # "#"
          /\ WellFormed(line)
          /\ Glob(line, rel)

\* C3: a regular file whose path below the repository root is matched by a
\* pattern line of the root .gitignore adds its size to neither the tally
\* nor the total, whatever its extension; with no .gitignore,
\* shouldIgnorePath is (false, nil) for every path.
C3_IgnoredFilesNotCounted ==
    /\ [][scanIdx' = scanIdx + 1 /\ ~Visited.isDir
            /\ MatchedByLine(scanRepo.gitignore, Visited.rel)
          => ScanUnchanged]_vars
    /\ [](scanRepo.gitignore.state = "absent" =>
            \A i \in DOMAIN scanRepo.tree :
               shouldIgnorePath(scanRepo.gitignore, scanRepo.tree[i].rel)
                 = [ignore |-> FALSE, err |-> FALSE])

\* *.go in .gitignore: a.go (2 bytes) is left out, s/c.go (1 byte), which
\* the pattern does not match, is counted
C3_Witness ==
    /\ scanPc = "returned"
    /\ scanRepo.gitignore = IgnoreOf(<<lnStarGo>>)
    /\ scanRepo.tree[2].size = 2 /\ scanRepo.tree[2].fault = "none"
    /\ scanRepo.tree[5].size = 1
    /\ Get(langByteCounts, "Go") = 1

\* the step that ends a call of ProcessGitRepo on the next entry
Analyzed == idx' = idx + 1 /\ calls'[idx'].invoked

CumulativeUnchanged ==
    totalLangCounts' = totalLangCounts /\ totalBytesAnalyzed' = totalBytesAnalyzed

\* C4: when git log or the file walk fails for a repository, the cumulative
\* tally and total are after the call what they were before it, and the
\* loop goes on: the failure ends nothing, every entry is processed, and
\* the run ends normally.
C4_FailureLeavesTotals ==
    /\ [][Analyzed /\ (calls'[idx'].gitErr \/ calls'[idx'].scan.err) =>
            /\ CumulativeUnchanged
            /\ pc' = "loop" /\ exitCode' = 0]_vars
    /\ [](pc = "loop" => ENABLED Next)
    /\ [](pc = "done" => Len(calls) = Len(entries) /\ exitCode = 0)

\* git log failed on the first repository and the second was analyzed
C4_Witness ==
    /\ pc = "done"
    /\ Len(calls) = 2
    /\ calls[1].invoked /\ calls[1].gitErr
    /\ Succeeded = {2}
    /\ totalBytesAnalyzed = calls[2].scan.total
    /\ totalBytesAnalyzed > 0

NothingAnalyzed == "No programming files were analyzed across the repositories."

\* C6: the renderer is called, once, if and only if the cumulative total
\* is above 0 once every entry has been processed; with a total of 0 the
\* run prints the message, calls no renderer and ends normally; no call of
\* the renderer comes before the last entry has been processed.
C6_ChartIffAnalyzed ==
    /\ pc = "done" =>
          /\ Len(svgCalls) = (IF totalBytesAnalyzed > 0 THEN 1 ELSE 0)
          /\ totalBytesAnalyzed = 0 =>
                console = NothingAnalyzed /\ exitCode = 0
          /\ totalBytesAnalyzed > 0 => console # NothingAnalyzed
    /\ pc # "done" => svgCalls = <<>>
    /\ \A i \in DOMAIN svgCalls :
          svgCalls[i].at = Len(entries) /\ Len(calls) = Len(entries)

\* a repository of empty files only: a tally with a key, a total of 0
C6_Witness ==
    /\ pc = "done"
    /\ Succeeded # {}
    /\ totalLangCounts = ("Go" :> 0)
    /\ totalBytesAnalyzed = 0
    /\ console = NothingAnalyzed
    /\ svgCalls = <<>>


\* the lines of the output, by position: a line starts at 1 and after
\* every newline, and runs to the next newline or to the end
LineStarts(out) == {1} \cup {i + 1 : i \in {k \in DOMAIN out : out[k] = NL}}

LineAt(out, start) ==
    LET nls == {k \in DOMAIN out : out[k] = NL /\ k >= start}
    IN IF nls = {} THEN Drop(out, start)
       ELSE SubSeq(out, start, (CHOOSE k \in nls : \A j \in nls : k <= j) - 1)

\* C7: for every output of git log, analyzeCommitsByAuthor returns a map
\* in which each author's count is the number of lines of the output equal
\* to that name; empty lines add nothing, every key has a count of at
\* least 1, the keys are the names on the non-empty lines, and the counts
\* sum to the number of non-empty lines.
C7_AuthorCounts ==
    authorsPc = "returned" =>
       LET out == gitResult.out
           nonBlank == {s \in LineStarts(out) : LineAt(out, s) # <<>>}
       IN /\ DOMAIN commitCounts = {LineAt(out, s) : s \in nonBlank}
          /\ \A name \in DOMAIN commitCounts :
                /\ commitCounts[name]
                     = Cardinality({s \in nonBlank : LineAt(out, s) = name})
                /\ commitCounts[name] >= 1
          /\ MapSum(commitCounts) = Cardinality(nonBlank)

\* three lines A, a blank line and two lines B: {A: 3, B: 2}
C7_Witness ==
    /\ authorsPc = "returned"
    /\ gitResult.out = <<"A", NL, "A", NL, "A", NL, NL, "B", NL, "B", NL>>
    /\ commitCounts = (<<"A">> :> 3) @@ (<<"B">> :> 2)

\* the callback was called on a regular, readable file of a known language
\* for which matching a pattern of .gitignore raised the matcher's error
MatcherErrorOnKnownFile ==
    /\ scanIdx' = scanIdx + 1
    /\ ~Visited.isDir /\ Visited.fault = "none"
    /\ scanRepo.gitignore.state = "ok"
    /\ shouldIgnorePath(scanRepo.gitignore, Visited.rel).err
    /\ ToLower(Ext(BaseName(Visited.rel))) \in DOMAIN extToLang

\* C8 as stated: on a matcher error the scan logs the error and goes on as
\* if the file were not ignored, adding the size of a file of a known
\* language to the tally and to the total.
C8_FailsOpen ==
    [][MatcherErrorOnKnownFile =>
          /\ scanLog' = "Error checking .gitignore"
          /\ LET lang == extToLang[ToLower(Ext(BaseName(Visited.rel)))]
             IN Get(langByteCounts', lang)
                  = Get(langByteCounts, lang) + Visited.size
          /\ totalBytes' = totalBytes + Visited.size]_vars

\* C8, amended: on a matcher error the scan logs the error and skips the
\* file: its size is added to neither the tally nor the total, whatever
\* its extension.
C8_MatcherErrorSkipsFile ==
    [][MatcherErrorOnKnownFile =>
          scanLog' = "Error checking .gitignore" /\ ScanUnchanged]_vars

\* "[" before "*.go" in .gitignore: a.go (2 bytes) has just been visited,
\* the error logged, and nothing counted for Go
C8_Witness ==
    /\ scanRepo.gitignore = IgnoreOf(<<lnBad, lnStarGo>>)
    /\ scanIdx = 2
    /\ scanRepo.tree[2].size = 2 /\ scanRepo.tree[2].fault = "none"
    /\ scanLog = "Error checking .gitignore"
    /\ "Go" \notin DOMAIN langByteCounts

\* C9: when a repository's total is 0, processGitRepo does not compute a
\* percentage by dividing by it: for every language of the repository's
\* tally the percentage line is left out or reports 0%.
C9_NoDivisionByZeroTotal ==
    \A i \in Succeeded :
       calls[i].scan.total = 0 =>
          \A l \in DOMAIN calls[i].scan.counts :
             \/ l \notin DOMAIN calls[i].out.stats
             \/ /\ calls[i].out.stats[l].class = "finite"
                /\ calls[i].out.stats[l].centi = 0

RECURSIVE SumWidths(_)
SumWidths(rects) ==
    IF rects = <<>> THEN 0 ELSE Head(rects).width + SumWidths(Tail(rects))

Within(a, b, tol) == a - b <= tol /\ b - a <= tol

Descending(rects) ==
    \A i, j \in DOMAIN rects : i < j => rects[i].byteCount >= rects[j].byteCount

\* C10 as stated: the rects are written in descending order of byte count,
\* the first starts at the margin, each later one starts exactly where the
\* one before it ends, and the widths sum to the chart width, so that the
\* last one ends at margin + chart width (x and width in hundredths, as
\* written).
C10_ExactLayout ==
    chartPc = "written" =>
       LET W == 100 * ChartWidth(chartIn.variant)
           M == 100 * ChartMargin(chartIn.variant)
           n == Len(chartOut)
       IN /\ Descending(chartOut)
          /\ chartOut[1].x = M
          /\ \A i \in 2..n : chartOut[i].x = chartOut[i-1].x + chartOut[i-1].width
          /\ SumWidths(chartOut) = W
          /\ chartOut[n].x + chartOut[n].width = M + W

\* C10, amended: the rects are written in descending order of byte count
\* and the first starts at the margin; as written, with two decimals, each
\* later one starts within 0.01 of where the one before it ends, the last
\* one ends within 0.01 of margin + chart width, and the widths sum to the
\* chart width within 0.01 per rect.
C10_LayoutWithinRounding ==
    chartPc = "written" =>
       LET W == 100 * ChartWidth(chartIn.variant)
           M == 100 * ChartMargin(chartIn.variant)
           n == Len(chartOut)
       IN /\ n = Cardinality(DOMAIN chartIn.counts)
          /\ \A i \in 1..n :
                chartOut[i].byteCount = chartIn.counts[chartOut[i].lang]
          /\ Descending(chartOut)
          /\ chartOut[1].x = M
          /\ \A i \in 2..n :
                Within(chartOut[i].x, chartOut[i-1].x + chartOut[i-1].width, 1)
          /\ Within(SumWidths(chartOut), W, n)
          /\ Within(chartOut[n].x + chartOut[n].width, M + W, 1)

\* three languages of one byte each, 500 wide from 50: thirds, written as
\* 166.67 wide at 50.00, 216.67 and 383.33
C10_Witness ==
    /\ chartPc = "written"
    /\ chartIn.variant = "builtin"
    /\ Len(chartOut) = 3
    /\ \A i \in 1..3 : chartOut[i].byteCount = 1 /\ chartOut[i].width = 16667
    /\ chartOut[1].x = 5000 /\ chartOut[2].x = 21667 /\ chartOut[3].x = 38333

====
